---- MODULE Spec2Model ----
(***************************************************************************)
(* A model of remindme: the time-expression parsers of                     *)
(* src/remindme/parsers.py and the scheduling backends of                  *)
(* src/remindme/backends.py.                                               *)
(*                                                                         *)
(* Text is a sequence of one-character strings.  The character "sup2"      *)
(* stands for U+00B2 SUPERSCRIPT TWO, a character for which Python's       *)
(* str.isdigit() is true and which int() rejects.                          *)
(***************************************************************************)
EXTENDS Integers, Sequences, FiniteSets, TLC

VARIABLES
    text,       \* parse_duration: the argument
    dres,       \* parse_duration: the outcome
    delta,      \* format_systemd_duration: the argument (a timedelta)
    fres,       \* format_systemd_duration: the outcome
    back,       \* parse_duration applied to the formatted text
    raw,        \* parse_when: the argument
    now,        \* parse_when: the value datetime.now() returns in the call
    wres,       \* parse_when: the outcome
    avail,      \* shutil.which: the concrete backends whose executable exists
    delegate,   \* AutoBackend._delegate
    calls,      \* scheduling calls received by the concrete backends
    fatal,      \* the message of the die() that ended the last call, or "none"
    attempts,   \* number of scheduling calls made on the AutoBackend instance
    pc,         \* a run of the program: the step it is at
    opt,        \* a run: the command line (backend name, title, command, message tokens)
    backend,    \* a run: the backend instance parse_backend returned, or "None"
    notify,     \* shutil.which("notify-send") finds the executable
    trace,      \* a run: the events so far (probes, checks, calls, spawns)
    exit,       \* a run: the exit status and the kind of diagnostic on stderr
    clock,      \* the wall clock: what datetime.now() returns
    spawned,    \* the external scheduling processes spawned, with their arguments
    outcome,    \* how the last scheduling call on a concrete backend ended
    uwhen,      \* unit_name: two instants
    unames,     \* unit_name: the names of the two instants
    sargs,      \* _build_notify_shell_command: the title and the message
    shline      \* _build_notify_shell_command: the shell line

vars ==
    <<text, dres, delta, fres, back, raw, now, wres, avail, delegate, calls, fatal, attempts,
      pc, opt, backend, notify, trace, exit, clock, spawned, outcome, uwhen, unames,
      sargs, shline>>

durVars  == <<text, dres>>
fmtVars  == <<delta, fres, back>>
whenVars == <<raw, now, wres>>
autoVars == <<avail, delegate, calls, fatal, attempts>>
runVars  == <<pc, opt, backend, notify, trace, exit>>
sysVars  == <<clock, spawned, outcome>>
unitVars == <<uwhen, unames>>
shVars   == <<sargs, shline>>
restVars == <<runVars, sysVars, unitVars, shVars>>

----------------------------------------------------------------------------
(* Bounds of the model *)

MaxLen == 3        \* every text over Alphabet up to this length is an input
MaxN == 12         \* magnitudes 0..MaxN are inputs of parse_duration
MaxSeconds == 130  \* whole seconds -2..MaxSeconds are inputs of the formatter
MaxCalls == 3      \* scheduling calls made on one AutoBackend instance
MaxSpawns == 2     \* scheduling calls made on the concrete backends
MaxArgLen == 2     \* every title or message over ShellChars up to this length is an input

----------------------------------------------------------------------------
(* Text helpers: str.strip, str.lower, str.isdigit, int, f"{n}" *)

Whitespace == {" ", "\t", "\n"}

DecimalChars == <<"0", "1", "2", "3", "4", "5", "6", "7", "8", "9">>

DecimalSet == {DecimalChars[i] : i \in 1..10}

\* str.isdigit() is true of the decimal digits and of digit-like characters
\* such as the superscripts
IsDigitChar(c) == c \in DecimalSet \cup {"sup2"}

DigitValue(c) == (CHOOSE i \in 1..10 : DecimalChars[i] = c) - 1

LowerChar(c) ==
    CASE c = "S" -> "s"
      [] c = "M" -> "m"
      [] c = "H" -> "h"
      [] c = "D" -> "d"
      [] c = "A" -> "a"
      [] c = "P" -> "p"
      [] OTHER -> c

Lower(s) == [i \in 1..Len(s) |-> LowerChar(s[i])]

RECURSIVE LStrip(_)
LStrip(s) == IF s # <<>> /\ Head(s) \in Whitespace THEN LStrip(Tail(s)) ELSE s

RECURSIVE RStrip(_)
RStrip(s) ==
    IF s # <<>> /\ s[Len(s)] \in Whitespace THEN RStrip(SubSeq(s, 1, Len(s) - 1)) ELSE s

Strip(s) == RStrip(LStrip(s))

IsDigit(s) == s # <<>> /\ \A i \in 1..Len(s) : IsDigitChar(s[i])

\* int(s) for a text of digit characters: -1 stands for the ValueError that
\* int() raises on a digit character that is not a decimal digit.  Python
\* integers are unbounded; the inputs of the model stay below 2^31.
RECURSIVE IntOf(_)
IntOf(s) ==
    IF s = <<>> THEN 0
    ELSE IF \E i \in 1..Len(s) : s[i] \notin DecimalSet THEN -1
    ELSE 10 * IntOf(SubSeq(s, 1, Len(s) - 1)) + DigitValue(s[Len(s)])

\* f"{n}" for n >= 0
RECURSIVE Dec(_)
Dec(n) == IF n < 10 THEN <<DecimalChars[n + 1]>> ELSE Dec(n \div 10) \o <<DecimalChars[(n % 10) + 1]>>

----------------------------------------------------------------------------
(* parse_duration *)

Units == {"s", "m", "h", "d"}

UnitSeconds(unit) ==
    CASE unit = "s" -> 1
      [] unit = "m" -> 60
      [] unit = "h" -> 3600
      [] unit = "d" -> 86400

\* timedelta(seconds=n), timedelta(minutes=n), timedelta(hours=n),
\* timedelta(days=n), normalised as Python does into whole days and the
\* seconds of the last day
DeltaOf(n, unit) ==
    LET perDay == 86400 \div UnitSeconds(unit) IN
    [days |-> n \div perDay, seconds |-> (n % perDay) * UnitSeconds(unit)]

\* timedelta.max.days: a timedelta of more days raises OverflowError
MaxTimedeltaDays == 999999999

\* max_duration = timedelta(days=365)
max_duration == [days |-> 365, seconds |-> 0]

ExceedsMaxOff(d) == d.days >= max_duration.days

\* delta > max_duration
ExceedsMax(d) ==
    \/ d.days > max_duration.days
    \/ d.days = max_duration.days /\ d.seconds > max_duration.seconds

NotPositiveOff(n) == n < 0

NotPositive(n) == n <= 0

Ok(seconds) == [status |-> "ok", seconds |-> seconds, err |-> "none"]

Die(msg) == [status |-> "die", seconds |-> 0, err |-> msg]

Raise(exc) == [status |-> "raise", seconds |-> 0, err |-> exc]

Pending == [status |-> "pending", seconds |-> 0, err |-> "none"]

parse_duration(t) ==
    LET txt == Lower(Strip(t)) IN
    IF txt = <<>> THEN Die("empty duration")
    ELSE
      LET n_str == SubSeq(txt, 1, Len(txt) - 1)
          unit == txt[Len(txt)]
      IN
      IF unit \notin Units \/ ~IsDigit(n_str)
      THEN Die("expected like 30m, 2h, 45s, 1d")
      ELSE
        LET n == IntOf(n_str) IN
        IF n = -1 THEN Raise("ValueError")
        ELSE IF NotPositive(n) THEN Die("must be > 0")
        ELSE IF DeltaOf(n, unit).days > MaxTimedeltaDays THEN Raise("OverflowError")
        ELSE IF ExceedsMax(DeltaOf(n, unit)) THEN Die("maximum is 365 days")
        ELSE Ok(DeltaOf(n, unit).days * 86400 + DeltaOf(n, unit).seconds)

----------------------------------------------------------------------------
(* format_systemd_duration *)

\* A timedelta as Python normalises it: whole seconds s (floor) and
\* microseconds us in 0..999999; the span is s + us/1000000 seconds.
Timedelta(s, us) == [s |-> s, us |-> us]

\* int(delta.total_seconds()): truncation toward zero
TotalSecondsInt(d) == IF d.s < 0 /\ d.us > 0 THEN d.s + 1 ELSE d.s

day == 24 * 3600

hour == 3600

minute == 60

FOk(t) == [status |-> "ok", txt |-> t, err |-> "none"]

FDie(msg) == [status |-> "die", txt |-> <<>>, err |-> msg]

FPending == [status |-> "pending", txt |-> <<>>, err |-> "none"]

format_systemd_duration_minute_first(d) ==
    LET seconds == TotalSecondsInt(d) IN
    IF seconds <= 0 THEN FDie("duration must be > 0 seconds")
    ELSE IF seconds % day = 0 THEN FOk(Dec(seconds \div day) \o <<"d">>)
    ELSE IF seconds % minute = 0 THEN FOk(Dec(seconds \div minute) \o <<"m">>)
    ELSE IF seconds % hour = 0 THEN FOk(Dec(seconds \div hour) \o <<"h">>)
    ELSE FOk(Dec(seconds) \o <<"s">>)

format_systemd_duration(d) ==
    LET seconds == TotalSecondsInt(d) IN
    IF seconds <= 0 THEN FDie("duration must be > 0 seconds")
    ELSE IF seconds % day = 0 THEN FOk(Dec(seconds \div day) \o <<"d">>)
    ELSE IF seconds % hour = 0 THEN FOk(Dec(seconds \div hour) \o <<"h">>)
    ELSE IF seconds % minute = 0 THEN FOk(Dec(seconds \div minute) \o <<"m">>)
    ELSE FOk(Dec(seconds) \o <<"s">>)

----------------------------------------------------------------------------
(* datetime: naive local wall-clock time with microsecond resolution *)

Datetime(y, mo, d, h, mi, s, us) ==
    [year |-> y, month |-> mo, day |-> d, hour |-> h, minute |-> mi, second |-> s,
     microsecond |-> us]

IsLeap(y) == (y % 4 = 0 /\ y % 100 # 0) \/ y % 400 = 0

DaysInMonth(y, mo) ==
    IF mo = 2 THEN (IF IsLeap(y) THEN 29 ELSE 28)
    ELSE IF mo \in {4, 6, 9, 11} THEN 30 ELSE 31

DtTuple(a) == <<a.year, a.month, a.day, a.hour, a.minute, a.second, a.microsecond>>

RECURSIVE LexLess(_, _)
LexLess(a, b) ==
    IF a = <<>> THEN FALSE
    ELSE IF Head(a) # Head(b) THEN Head(a) < Head(b)
    ELSE LexLess(Tail(a), Tail(b))

\* a < b and a <= b on datetimes
DtLess(a, b) == LexLess(DtTuple(a), DtTuple(b))

DtLeq(a, b) == a = b \/ DtLess(a, b)

\* dt + timedelta(days=1)
AddDay(a) ==
    IF a.day < DaysInMonth(a.year, a.month) THEN [a EXCEPT !.day = a.day + 1]
    ELSE IF a.month < 12 THEN [a EXCEPT !.month = a.month + 1, !.day = 1]
    ELSE [a EXCEPT !.year = a.year + 1, !.month = 1, !.day = 1]

----------------------------------------------------------------------------
(* dateutil.parser.parse(raw, default=...), for the shapes of text the     *)
(* model feeds it: whitespace-separated tokens, each a date YYYY-MM-DD or  *)
(* MM/DD/YYYY, a clock time H:MM or H:MM:SS with an optional am/pm suffix, *)
(* an hour with am/pm, or a bare day number.  A field the text does not    *)
(* give is None (-1 here) and is taken from the default.                   *)

None == -1

IsDecimal(s) == s # <<>> /\ \A i \in 1..Len(s) : s[i] \in DecimalSet

FirstIndex(s, S) ==
    IF \E i \in 1..Len(s) : s[i] \in S
    THEN CHOOSE i \in 1..Len(s) : s[i] \in S /\ \A j \in 1..(i - 1) : s[j] \notin S
    ELSE Len(s) + 1

\* str.split(): the whitespace-delimited tokens
RECURSIVE Split(_)
Split(s) ==
    LET t == LStrip(s)
        n == FirstIndex(t, Whitespace)
    IN IF t = <<>> THEN <<>>
       ELSE <<SubSeq(t, 1, n - 1)>> \o Split(SubSeq(t, n, Len(t)))

\* the pieces of s between occurrences of the character c
RECURSIVE SplitOn(_, _)
SplitOn(s, c) ==
    LET n == FirstIndex(s, {c}) IN
    IF n > Len(s) THEN <<s>>
    ELSE <<SubSeq(s, 1, n - 1)>> \o SplitOn(SubSeq(s, n + 1, Len(s)), c)

\* sub in s
Contains(s, sub) ==
    \E i \in 1..(Len(s) - Len(sub) + 1) : SubSeq(s, i, i + Len(sub) - 1) = sub

EndsWith(s, suf) == Len(s) >= Len(suf) /\ SubSeq(s, Len(s) - Len(suf) + 1, Len(s)) = suf

NoFields ==
    [ok |-> TRUE, year |-> None, month |-> None, day |-> None, hour |-> None,
     minute |-> None, second |-> None, microsecond |-> None]

BadToken == [NoFields EXCEPT !.ok = FALSE]

\* 12-hour clock: 12am is 0, 1pm..11pm are 13..23
AdjustAmPm(h, ampm) ==
    IF h < 12 /\ ampm = "pm" THEN h + 12
    ELSE IF h = 12 /\ ampm = "am" THEN 0
    ELSE h

ClockFields(core, ampm) ==
    LET p == SplitOn(core, ":") IN
    IF Len(p) > 3 \/ \E i \in 1..Len(p) : ~IsDecimal(p[i]) THEN BadToken
    ELSE IF Len(p) = 1 /\ ampm = "none" THEN BadToken
    ELSE IF ampm # "none" /\ IntOf(p[1]) \notin 1..12 THEN BadToken
    ELSE LET h == IF ampm = "none" THEN IntOf(p[1]) ELSE AdjustAmPm(IntOf(p[1]), ampm) IN
         IF Len(p) = 1 THEN [NoFields EXCEPT !.hour = h]
         ELSE IF Len(p) = 2 THEN [NoFields EXCEPT !.hour = h, !.minute = IntOf(p[2])]
         ELSE [NoFields EXCEPT !.hour = h, !.minute = IntOf(p[2]),
                               !.second = IntOf(p[3]), !.microsecond = 0]

DateFields(tok) ==
    LET iso == SplitOn(tok, "-")
        us == SplitOn(tok, "/")
    IN
    IF Len(iso) = 3 /\ (\A i \in 1..3 : IsDecimal(iso[i])) /\ Len(iso[1]) = 4
    THEN [NoFields EXCEPT !.year = IntOf(iso[1]), !.month = IntOf(iso[2]), !.day = IntOf(iso[3])]
    ELSE IF Len(us) = 3 /\ (\A i \in 1..3 : IsDecimal(us[i])) /\ Len(us[3]) = 4
    THEN [NoFields EXCEPT !.year = IntOf(us[3]), !.month = IntOf(us[1]), !.day = IntOf(us[2])]
    ELSE BadToken

TokenFields(token) ==
    LET tok == Lower(token) IN
    IF Contains(tok, <<"-">>) \/ Contains(tok, <<"/">>) THEN DateFields(tok)
    ELSE IF EndsWith(tok, <<"a", "m">>) THEN ClockFields(SubSeq(tok, 1, Len(tok) - 2), "am")
    ELSE IF EndsWith(tok, <<"p", "m">>) THEN ClockFields(SubSeq(tok, 1, Len(tok) - 2), "pm")
    ELSE IF Contains(tok, <<":">>) THEN ClockFields(tok, "none")
    ELSE IF IsDecimal(tok) /\ Len(tok) <= 2 /\ IntOf(tok) \in 1..31
    THEN [NoFields EXCEPT !.day = IntOf(tok)]
    ELSE BadToken

FieldNames == {"year", "month", "day", "hour", "minute", "second", "microsecond"}

\* the fields of two tokens together; a field given twice is not accepted
Merge(a, b) ==
    IF ~a.ok \/ ~b.ok \/ \E f \in FieldNames : a[f] # None /\ b[f] # None THEN BadToken
    ELSE [f \in FieldNames \cup {"ok"} |->
            IF f = "ok" THEN TRUE ELSE IF a[f] # None THEN a[f] ELSE b[f]]

RECURSIVE TokensFields(_)
TokensFields(toks) ==
    IF toks = <<>> THEN NoFields
    ELSE Merge(TokenFields(Head(toks)), TokensFields(Tail(toks)))

\* default.replace(**fields): ValueError when a field is out of range
ValidDatetime(a) ==
    /\ a.year \in 1..9999
    /\ a.month \in 1..12
    /\ a.day \in 1..DaysInMonth(a.year, a.month)
    /\ a.hour \in 0..23
    /\ a.minute \in 0..59
    /\ a.second \in 0..59
    /\ a.microsecond \in 0..999999

Filled(res, default) ==
    [f \in FieldNames |-> IF res[f] # None THEN res[f] ELSE default[f]]

NoDatetime == Datetime(0, 0, 0, 0, 0, 0, 0)

dtparser_parse(s, default) ==
    LET res == TokensFields(Split(s)) IN
    IF Split(s) = <<>> \/ ~res.ok \/ ~ValidDatetime(Filled(res, default))
    THEN [ok |-> FALSE, dt |-> NoDatetime]
    ELSE [ok |-> TRUE, dt |-> Filled(res, default)]

----------------------------------------------------------------------------
(* parse_when *)

WOk(dt) == [status |-> "ok", dt |-> dt, err |-> "none"]

WDie(msg) == [status |-> "die", dt |-> NoDatetime, err |-> msg]

WPending == [status |-> "pending", dt |-> NoDatetime, err |-> "none"]

\* not any(ch.isdigit() for ch in raw.split()[0] if ch in "-/"): the test
\* ch.isdigit() is applied to the characters of the first token that are
\* '-' or '/'
NoDateSeparatorDigit(r) ==
    LET first == Split(r)[1] IN
    ~ \E i \in 1..Len(first) : first[i] \in {"-", "/"} /\ IsDigitChar(first[i])

looks_time_only(r) ==
    /\ NoDateSeparatorDigit(r)
    /\ \/ Contains(r, <<":">>)
       \/ Contains(Lower(r), <<"a", "m">>)
       \/ Contains(Lower(r), <<"p", "m">>)
       \/ IsDigit(Strip(r))

\* candidate <= now
CandidatePassedStrict(candidate, n) == DtLess(candidate, n)

CandidatePassed(candidate, n) == DtLeq(candidate, n)

\* dt <= now
NotInFutureStrict(dt, n) == DtLess(dt, n)

NotInFuture(dt, n) == DtLeq(dt, n)

parse_when(t, n) ==
    LET r == Strip(t) IN
    IF r = <<>> THEN WDie("empty time")
    ELSE
      LET p == dtparser_parse(r, [n EXCEPT !.microsecond = 0]) IN
      IF ~p.ok THEN WDie("could not parse time")
      ELSE
        LET dt == [p.dt EXCEPT !.microsecond = 0]
            candidate == [n EXCEPT !.hour = dt.hour, !.minute = dt.minute,
                                   !.second = dt.second, !.microsecond = 0]
        IN
        IF looks_time_only(r)
        THEN (IF CandidatePassed(candidate, n) THEN WOk(AddDay(candidate)) ELSE WOk(candidate))
        ELSE IF NotInFuture(dt, n) THEN WDie("requested time is not in the future")
        ELSE WOk(dt)

----------------------------------------------------------------------------
(* The backend registry and AutoBackend *)

\* BACKENDS, in declaration order
BACKENDS == <<"auto", "systemd", "at">>

Concrete == {"systemd", "at"}

NoUsableBackend == "no usable backend found: need one of systemd, at"

\* SystemdBackend.is_available / AtBackend.is_available: shutil.which finds
\* the executable
is_available(name, av) == name \in av

Candidates(av) ==
    {i \in 1..Len(BACKENDS) : BACKENDS[i] # "auto" /\ is_available(BACKENDS[i], av)}

select_delegate_last(av) ==
    IF Candidates(av) = {} THEN "None"
    ELSE BACKENDS[CHOOSE i \in Candidates(av) : \A j \in Candidates(av) : j <= i]

\* AutoBackend._select_delegate: "None" stands for the die(NoUsableBackend)
select_delegate(av) ==
    IF Candidates(av) = {} THEN "None"
    ELSE BACKENDS[CHOOSE i \in Candidates(av) : \A j \in Candidates(av) : i <= j]

delegate_uncached(d, av) == select_delegate(av)

\* the AutoBackend.delegate property: the value it returns, "None" when
\* _select_delegate died
delegate_property(d, av) == IF d = "None" THEN select_delegate(av) ELSE d

\* AutoBackend.schedule_in / schedule_at: self.delegate.<op>(...)
AutoSchedule(op) ==
    /\ attempts < MaxCalls
    /\ attempts' = attempts + 1
    /\ LET d == delegate_property(delegate, avail) IN
       IF d = "None"
       THEN /\ fatal' = NoUsableBackend
            /\ UNCHANGED <<delegate, calls>>
       ELSE /\ delegate' = d
            /\ calls' = Append(calls, [backend |-> d, op |-> op])
            /\ fatal' = "none"
    /\ UNCHANGED <<avail, durVars, fmtVars, whenVars, restVars>>

AutoScheduleIn == AutoSchedule("schedule_in")

AutoScheduleAt == AutoSchedule("schedule_at")

\* the environment: executables appear on or disappear from the search path
SetAvailability ==
    /\ \E av \in SUBSET Concrete : av # avail /\ avail' = av
    /\ UNCHANGED <<delegate, calls, fatal, attempts, durVars, fmtVars, whenVars, restVars>>

----------------------------------------------------------------------------
(* Inputs *)

Alphabet == {"0", "1", "5", "-", "m", "d", "M", " ", "x", "sup2"}

RECURSIVE TextsOfLen(_)
TextsOfLen(n) ==
    IF n = 0 THEN {<<>>}
    ELSE {Append(t, c) : t \in TextsOfLen(n - 1), c \in Alphabet}

ShortTexts == UNION {TextsOfLen(n) : n \in 0..MaxLen}

\* the spans around 365 days in each unit
Magnitudes ==
    (0..MaxN) \cup {30, 365, 366, 8760, 8761, 525600, 525601, 31536000, 31536001,
                   999999999, 1000000000}

Paddings == {<<>>, <<" ">>, <<"\t">>, <<"\n">>}

GrammarTexts ==
    {pre \o Dec(n) \o <<u>> \o post :
        n \in Magnitudes, u \in Units \cup {"S", "M", "H", "D"},
        pre \in {<<>>, <<" ">>}, post \in Paddings}

DurationTexts == ShortTexts \cup GrammarTexts

Deltas ==
    {Timedelta(s, us) :
        s \in ((0 - 2)..MaxSeconds) \cup
              {3600, 5400, 5415, 7200, 86400, 90000, 172800, 31536000, 31539600, 31622400},
        us \in {0, 500000}}

Pad2(n) == IF n < 10 THEN <<"0">> \o Dec(n) ELSE Dec(n)

HmTexts == {Pad2(h) \o <<":">> \o Pad2(m) : h \in {0, 10, 15, 16, 23, 25}, m \in {0, 30}}

HmsTexts == {Pad2(h) \o <<":">> \o Pad2(m) \o <<":">> \o Pad2(s) :
                h \in {10, 15, 23}, m \in {0, 59}, s \in {0, 42, 59}}

AmPmTexts == {Dec(h) \o sfx : h \in {3, 10, 12}, sfx \in {<<"a", "m">>, <<"p", "m">>, <<"P", "M">>}}
             \cup {<<"3", ":", "3", "0", "p", "m">>}

IsoDates ==
    {Dec(y) \o <<"-">> \o Pad2(mo) \o <<"-">> \o Pad2(d) :
        y \in {2020, 2026, 2027}, mo \in {1, 2}, d \in {1, 15, 16, 30}}

SlashDates == {<<"1", "/", "1", "6", "/", "2", "0", "2", "6">>}

DateTexts == IsoDates \cup SlashDates

DateTimeTexts ==
    {d \o <<" ">> \o c : d \in DateTexts,
        c \in {<<"1", "5", ":", "0", "0">>, <<"1", "2", ":", "0", "0">>,
               <<"1", "0", ":", "3", "0", ":", "0", "0">>, <<"3", "p", "m">>}}

OtherWhenTexts ==
    {<<>>, <<" ", " ">>, <<"x", "x", "x">>, <<"1", "5">>, <<"3", "1">>,
     <<" ", "1", "5", ":", "0", "0", "\n">>}

WhenTexts == HmTexts \cup HmsTexts \cup AmPmTexts \cup DateTexts \cup DateTimeTexts
             \cup OtherWhenTexts

Nows ==
    {Datetime(d[1], d[2], d[3], h, mi, s, us) :
        d \in {<<2026, 1, 15>>, <<2026, 1, 31>>, <<2026, 12, 31>>, <<2024, 2, 28>>},
        h \in {0, 10, 15, 16, 23}, mi \in {0, 30}, s \in {0, 42}, us \in {0, 500000}}

----------------------------------------------------------------------------
(* datetime + timedelta, strftime, unit_name *)

RECURSIVE AddDays(_, _)
AddDays(a, k) == IF k = 0 THEN a ELSE AddDays(AddDay(a), k - 1)

\* a + d for a timedelta d of d.s >= 0 seconds and d.us microseconds
AddDelta(a, d) ==
    LET usTotal == a.microsecond + d.us
        secs == a.hour * 3600 + a.minute * 60 + a.second + d.s + (usTotal \div 1000000)
        r == secs % 86400
    IN AddDays([a EXCEPT !.hour = r \div 3600, !.minute = (r % 3600) \div 60,
                         !.second = r % 60, !.microsecond = usTotal % 1000000],
               secs \div 86400)

\* a number in decimal, zero-padded to at least w digits: %Y (years from
\* 1000), %m, %d, %H, %M, %S and the format 06d
ZPad(n, w) == [i \in 1..(w - Len(Dec(n))) |-> "0"] \o Dec(n)

\* when.strftime("%Y%m%d")
StampDate(a) == ZPad(a.year, 4) \o ZPad(a.month, 2) \o ZPad(a.day, 2)

\* when.strftime("%H%M%S")
StampTime(a) == ZPad(a.hour, 2) \o ZPad(a.minute, 2) \o ZPad(a.second, 2)

unit_name_no_padding(prefix, when) ==
    prefix \o <<"-">> \o StampDate(when) \o <<"-">> \o StampTime(when)
           \o <<"-">> \o Dec(when.microsecond)

\* utils.unit_name
unit_name(prefix, when) ==
    prefix \o <<"-">> \o StampDate(when) \o <<"-">> \o StampTime(when)
           \o <<"-">> \o ZPad(when.microsecond, 6)

----------------------------------------------------------------------------
(* shlex.quote and _build_notify_shell_command *)

\* the characters shlex.quote leaves alone: letters, digits and _@%+=:,./-
\* (a word of the model written as one element, such as "notify-send", is a
\* run of such characters)
SafeChars ==
    DecimalSet \cup {"a", "b", "_", "@", "%", "+", "=", ":", ",", ".", "/", "-",
                     "notify-send", "Reminder", "hi"}

\* s.replace("'", "'\"'\"'")
RECURSIVE EscapeQuotes(_)
EscapeQuotes(s) ==
    IF s = <<>> THEN <<>>
    ELSE (IF Head(s) = "'" THEN <<"'", "\"", "'", "\"", "'">> ELSE <<Head(s)>>)
         \o EscapeQuotes(Tail(s))

shlex_quote_no_escape(s) ==
    IF s = <<>> THEN <<"'", "'">>
    ELSE IF \A i \in 1..Len(s) : s[i] \in SafeChars THEN s
    ELSE <<"'">> \o s \o <<"'">>

\* shlex.quote
shlex_quote(s) ==
    IF s = <<>> THEN <<"'", "'">>
    ELSE IF \A i \in 1..Len(s) : s[i] \in SafeChars THEN s
    ELSE <<"'">> \o EscapeQuotes(s) \o <<"'">>

\* " ".join(["notify-send", shlex.quote(title), shlex.quote(message)])
build_notify_shell_command(title, message) ==
    <<"notify-send">> \o <<" ">> \o shlex_quote(title) \o <<" ">> \o shlex_quote(message)

----------------------------------------------------------------------------
(* The concrete backends: the process each scheduling call spawns *)

\* the executable each backend runs
Executable(b) == IF b = "systemd" THEN "systemd-run" ELSE "at"

SystemdInCmdJoined(duration, title, message, t) ==
    << <<"systemd-run">>, <<"--user">>, <<"--unit">>,
       unit_name(<<"remindme">>, AddDelta(t, duration)),
       <<"--on-active">>, format_systemd_duration(duration).txt,
       <<"--">>, <<"notify-send">> \o <<" ">> \o title \o <<" ">> \o message >>

\* SystemdBackend.schedule_in: the argument vector, t being datetime.now()
SystemdInCmd(duration, title, message, t) ==
    << <<"systemd-run">>, <<"--user">>, <<"--unit">>,
       unit_name(<<"remindme">>, AddDelta(t, duration)),
       <<"--on-active">>, format_systemd_duration(duration).txt,
       <<"--">>, <<"notify-send">>, title, message >>

\* when.strftime("%Y-%m-%d %H:%M:%S")
OnCalendar(a) ==
    ZPad(a.year, 4) \o <<"-">> \o ZPad(a.month, 2) \o <<"-">> \o ZPad(a.day, 2) \o <<" ">>
    \o ZPad(a.hour, 2) \o <<":">> \o ZPad(a.minute, 2) \o <<":">> \o ZPad(a.second, 2)

\* SystemdBackend.schedule_at: the argument vector
SystemdAtCmd(when, title, message) ==
    << <<"systemd-run">>, <<"--user">>, <<"--unit">>,
       unit_name(<<"remindme">>, when),
       <<"--on-calendar">>, OnCalendar(when),
       <<"--">>, <<"notify-send">>, title, message >>

\* when.strftime("%Y%m%d%H%M")
AtTimestamp(a) == StampDate(a) \o ZPad(a.hour, 2) \o ZPad(a.minute, 2)

\* AtBackend.schedule_at: the argument vector
AtCmd(when) == << <<"at">>, <<"-t">>, AtTimestamp(when) >>

\* AtBackend.schedule_at: the standard input of the process
AtInput(title, message) == build_notify_shell_command(title, message) \o <<"\n">>

\* utils.run: subprocess.run(cmd, check=True) with FileNotFoundError and
\* CalledProcessError both turned into die()
run(found, status) ==
    IF ~found THEN "die"
    ELSE IF status # 0 THEN "die"
    ELSE "return"

\* AtBackend.schedule_at: subprocess.run(..., check=True) with only
\* CalledProcessError turned into die()
at_run(found, status) ==
    IF ~found THEN "FileNotFoundError"
    ELSE IF status # 0 THEN "die"
    ELSE "return"

\* how a scheduling call on a concrete backend ends
CallOutcome(b, found, status) ==
    IF b = "systemd" THEN run(found, status) ELSE at_run(found, status)

\* the process a scheduling call on a concrete backend spawns at the moment
\* t: op is "schedule_in" with a timedelta arg or "schedule_at" with a
\* datetime arg.  AtBackend.schedule_in is schedule_at(now + duration).
Spawn(b, op, arg, title, message, t, status) ==
    IF b = "systemd"
    THEN [argv |-> IF op = "schedule_in" THEN SystemdInCmd(arg, title, message, t)
                   ELSE SystemdAtCmd(arg, title, message),
          stdin |-> <<>>, status |-> status, at |-> t, op |-> op]
    ELSE [argv |-> AtCmd(IF op = "schedule_in" THEN AddDelta(t, arg) ELSE arg),
          stdin |-> AtInput(title, message), status |-> status, at |-> t, op |-> op]

----------------------------------------------------------------------------
(* cli.parse_backend, cli.parse_args and __main__.main *)

InRegistry(name) == \E i \in 1..Len(BACKENDS) : BACKENDS[i] = name

\* AutoBackend.is_available: any(...) over the concrete backends
auto_is_available(av) ==
    \E i \in 1..Len(BACKENDS) : BACKENDS[i] # "auto" /\ is_available(BACKENDS[i], av)

\* backend_cls.is_available() for a registry name
cls_is_available(name, av) ==
    IF name = "auto" THEN auto_is_available(av) ELSE is_available(name, av)

BackendOk(name) == [status |-> "ok", instance |-> name, err |-> "none"]

BackendError(msg) == [status |-> "ArgumentTypeError", instance |-> "None", err |-> msg]

parse_backend_unprobed(name, av) ==
    IF ~InRegistry(name) THEN BackendError("unknown backend")
    ELSE BackendOk(name)

\* cli.parse_backend
parse_backend(name, av) ==
    IF ~InRegistry(name) THEN BackendError("unknown backend")
    ELSE IF ~cls_is_available(name, av) THEN BackendError("is not available on this system")
    ELSE BackendOk(name)

AutoBackendInitSelected == "systemd"

\* AutoBackend.__init__: self._delegate = None
AutoBackendInit == "None"

\* an event of the run
Ev(name) == [ev |-> name]

\* the availability calls parse_backend makes: a scan of the concrete
\* backends for auto, one probe for a concrete backend
ResolveEvents(name) ==
    IF ~InRegistry(name) THEN <<>>
    ELSE IF name = "auto" THEN <<Ev("scan")>>
    ELSE <<Ev("probe")>>

\* " ".join(ns.message)
RECURSIVE JoinSp(_)
JoinSp(ws) ==
    IF ws = <<>> THEN <<>>
    ELSE IF Len(ws) = 1 THEN ws[1]
    ELSE ws[1] \o <<" ">> \o JoinSp(Tail(ws))

\* the command line before it is read
NoOpt == [backend |-> "auto", title |-> <<>>, command |-> "in", tokens |-> <<>>, shape |-> "ok"]

\* the process has not ended
NoExit == [status |-> -1, diag |-> "none"]

\* how the process ends: SystemExit(0); die(), that is SystemExit("error:
\* ..."), printed and status 1; an argparse usage error, status 2; an uncaught
\* exception, traceback and status 1
ExitOk == [status |-> 0, diag |-> "none"]

ExitDie == [status |-> 1, diag |-> "error: "]

ExitUsage == [status |-> 2, diag |-> "remindme: error: "]

ExitTraceback == [status |-> 1, diag |-> "Traceback"]

\* argparse calling a type= function: ArgumentTypeError, TypeError and
\* ValueError become a usage error, anything else propagates
TypeExit(res) ==
    CASE res.status = "ok" -> NoExit
      [] res.status = "die" -> ExitDie
      [] res.err = "ValueError" -> ExitUsage
      [] OTHER -> ExitTraceback

\* the command line carries no --title
NoTitle == <<"None">>

\* p.add_argument("--title", default="Reminder"): ns.title
title_of(given) == IF given = NoTitle THEN <<"Reminder">> ELSE given

message_of_unstripped(tokens) == JoinSp(tokens)

\* msg = " ".join(ns.message).strip()
message_of(tokens) == Strip(JoinSp(tokens))

MessageRequired == "message is required"

\* the In or At of parse_args
Method ==
    [kind |-> opt.command,
     arg |-> IF opt.command = "in" THEN Timedelta(dres.seconds, 0) ELSE wres.dt,
     message |-> message_of(opt.tokens),
     title |-> title_of(opt.title)]

check_notify_send_lenient(present) == "return"

\* utils.check_notify_send
check_notify_send(present) == IF present THEN "return" ELSE "die"

OrchestratorCallDefaultTitle(m, b) ==
    [ev |-> IF m.kind = "in" THEN "schedule_in" ELSE "schedule_at",
     on |-> b, arg |-> m.arg, title |-> <<"Reminder">>, message |-> m.message]

\* main: the match on opt.method
OrchestratorCall(m, b) ==
    [ev |-> IF m.kind = "in" THEN "schedule_in" ELSE "schedule_at",
     on |-> b, arg |-> m.arg, title |-> m.title, message |-> m.message]

CallExitIgnoringFailure(end) == ExitOk

\* script: SystemExit(main(...)) after the scheduling call ended
CallExit(end) ==
    CASE end = "return" -> ExitOk
      [] end = "die" -> ExitDie
      [] OTHER -> ExitTraceback

----------------------------------------------------------------------------
(* Specifications *)

IdleDuration == text = <<>> /\ dres = Pending

IdleFormat == delta = Timedelta(0, 0) /\ fres = FPending /\ back = Pending

IdleWhen == raw = <<>> /\ now = NoDatetime /\ wres = WPending

IdleAuto == avail = {} /\ delegate = "None" /\ calls = <<>> /\ fatal = "none" /\ attempts = 0

\* no backend resolved yet
BackendPending == [status |-> "pending", instance |-> "None", err |-> "none"]

IdleRun ==
    /\ pc = "idle" /\ opt = NoOpt /\ backend = BackendPending /\ notify = FALSE
    /\ trace = <<>> /\ exit = NoExit

IdleSys == clock = NoDatetime /\ spawned = <<>> /\ outcome = "none"

IdleUnit == uwhen = <<NoDatetime, NoDatetime, <<>>>> /\ unames = <<>>

IdleShell == sargs = <<<<>>, <<>>>> /\ shline = <<>>

IdleRest == IdleRun /\ IdleSys /\ IdleUnit /\ IdleShell

\* parse_duration applied to a text
InitDuration ==
    /\ text \in DurationTexts
    /\ dres = Pending
    /\ IdleFormat /\ IdleWhen /\ IdleAuto /\ IdleRest

ParseDuration ==
    /\ dres = Pending
    /\ dres' = parse_duration(text)
    /\ UNCHANGED <<text, fmtVars, whenVars, autoVars, restVars>>

NextDuration == ParseDuration

SpecDuration == InitDuration /\ [][NextDuration]_vars

\* format_systemd_duration applied to a timedelta, parse_duration to its result
InitFormat ==
    /\ delta \in Deltas
    /\ fres = FPending
    /\ back = Pending
    /\ IdleDuration /\ IdleWhen /\ IdleAuto /\ IdleRest

FormatSystemdDuration ==
    /\ fres = FPending
    /\ fres' = format_systemd_duration(delta)
    /\ UNCHANGED <<delta, back, durVars, whenVars, autoVars, restVars>>

ParseFormatted ==
    /\ fres.status = "ok"
    /\ back = Pending
    /\ back' = parse_duration(fres.txt)
    /\ UNCHANGED <<delta, fres, durVars, whenVars, autoVars, restVars>>

NextFormat == FormatSystemdDuration \/ ParseFormatted

SpecFormat == InitFormat /\ [][NextFormat]_vars

\* parse_when applied to a text at a moment
InitWhen ==
    /\ raw \in WhenTexts
    /\ now \in Nows
    /\ wres = WPending
    /\ IdleDuration /\ IdleFormat /\ IdleAuto /\ IdleRest

ParseWhen ==
    /\ wres = WPending
    /\ wres' = parse_when(raw, now)
    /\ UNCHANGED <<raw, now, durVars, fmtVars, autoVars, restVars>>

NextWhen == ParseWhen

SpecWhen == InitWhen /\ [][NextWhen]_vars

\* one AutoBackend instance, after construction
Init ==
    /\ avail \in SUBSET Concrete
    /\ delegate = "None"
    /\ calls = <<>>
    /\ fatal = "none"
    /\ attempts = 0
    /\ IdleDuration /\ IdleFormat /\ IdleWhen /\ IdleRest

Next == AutoScheduleIn \/ AutoScheduleAt \/ SetAvailability

Spec == Init /\ [][Next]_vars

\* unit_name applied to two instants with one prefix
UnitInstants ==
    {Datetime(y, mo, d, h, 30, sec, us) :
        y \in {2026, 2027}, mo \in {1, 11}, d \in {1, 11}, h \in {1, 14},
        sec \in {0, 45}, us \in {0, 1, 123456}}

InitUnit ==
    /\ uwhen \in UnitInstants \X UnitInstants \X {<<"remindme">>, <<"t", "e", "s", "t">>}
    /\ unames = <<>>
    /\ IdleDuration /\ IdleFormat /\ IdleWhen /\ IdleAuto
    /\ IdleRun /\ IdleSys /\ IdleShell

UnitName ==
    /\ unames = <<>>
    /\ unames' = <<unit_name(uwhen[3], uwhen[1]), unit_name(uwhen[3], uwhen[2])>>
    /\ UNCHANGED <<uwhen, durVars, fmtVars, whenVars, autoVars, runVars, sysVars, shVars>>

NextUnit == UnitName

SpecUnit == InitUnit /\ [][NextUnit]_vars

\* _build_notify_shell_command applied to a title and a message; the backquote
\* character is written "backtick"
ShellChars ==
    {"a", " ", "'", "\"", ";", "$", "backtick", "\n", "(", ")", "\\", "-", "#", "&", "|"}

RECURSIVE ArgsOfLen(_)
ArgsOfLen(n) ==
    IF n = 0 THEN {<<>>}
    ELSE {Append(t, c) : t \in ArgsOfLen(n - 1), c \in ShellChars}

ShortArgs == UNION {ArgsOfLen(n) : n \in 0..MaxArgLen}

HostileArgs ==
    {<<"Reminder">>,
     <<"a", ";", " ", "r", "m", " ", "-", "r", "f", " ", "/">>,
     <<"$", "(", "a", ")">>,
     <<"backtick", "a", "backtick">>,
     <<"a", "'", ";", "a", ";", "'">>,
     <<"'", "\"", "'", "\"", "'">>,
     <<"\"", ";", "a", "\"">>,
     <<"a", "\n", "a", " ", "a">>,
     <<"\\", "'", ";", "a">>,
     <<"'", "'", "'">>}

InitShell ==
    /\ sargs \in (ShortArgs \X HostileArgs) \cup (HostileArgs \X ShortArgs)
    /\ shline = <<>>
    /\ IdleDuration /\ IdleFormat /\ IdleWhen /\ IdleAuto
    /\ IdleRun /\ IdleSys /\ IdleUnit

BuildShellCommand ==
    /\ shline = <<>>
    /\ shline' = AtInput(sargs[1], sargs[2])
    /\ UNCHANGED <<sargs, durVars, fmtVars, whenVars, autoVars, runVars, sysVars, unitVars>>

NextShell == BuildShellCommand

SpecShell == InitShell /\ [][NextShell]_vars

\* the concrete backends called directly, one call after another, each at a
\* later reading of the clock
BootInstant == Datetime(2026, 1, 15, 9, 0, 0, 0)

BackendClocks ==
    {Datetime(2026, 1, 15, 10, 0, 0, 0), Datetime(2026, 1, 15, 10, 0, 30, 0),
     Datetime(2026, 1, 15, 10, 0, 30, 500000), Datetime(2026, 1, 15, 10, 0, 59, 0),
     Datetime(2026, 1, 15, 23, 59, 50, 0)}

\* durations as parse_duration makes them: whole seconds
BackendDurations == {Timedelta(n, 0) : n \in {20, 30, 60, 86400}}

\* instants as parse_when makes them: microsecond 0
BackendWhens == {Datetime(2026, 1, 16, 15, 0, 0, 0), Datetime(2026, 1, 16, 15, 0, 30, 0)}

\* one subprocess.run call of a scheduling operation: found tells whether the
\* executable was on the search path, proc is the process asked for
Invocation(b, op, arg, title, message, t, found, status) ==
    [backend |-> b, arg |-> arg, found |-> found,
     proc |-> Spawn(b, op, arg, title, message, t, status)]

InitBackend ==
    /\ clock = BootInstant
    /\ spawned = <<>>
    /\ outcome = "none"
    /\ IdleDuration /\ IdleFormat /\ IdleWhen /\ IdleAuto
    /\ IdleRun /\ IdleUnit /\ IdleShell

\* <backend>.<op>(arg, "Reminder", "hi") at the clock reading t
ScheduleCall(b, op, args) ==
    /\ Len(spawned) < MaxSpawns
    /\ \E arg \in args, t \in BackendClocks, found \in BOOLEAN, status \in {0, 1} :
         /\ DtLess(clock, t)
         /\ ~found => status = 0
         /\ clock' = t
         /\ spawned' = Append(spawned,
                Invocation(b, op, arg, <<"Reminder">>, <<"hi">>, t, found, status))
         /\ outcome' = CallOutcome(b, found, status)
    /\ UNCHANGED <<durVars, fmtVars, whenVars, autoVars, runVars, unitVars, shVars>>

SystemdScheduleIn == ScheduleCall("systemd", "schedule_in", BackendDurations)

SystemdScheduleAt == ScheduleCall("systemd", "schedule_at", BackendWhens)

AtScheduleIn == ScheduleCall("at", "schedule_in", BackendDurations)

AtScheduleAt == ScheduleCall("at", "schedule_at", BackendWhens)

NextBackend == SystemdScheduleIn \/ SystemdScheduleAt \/ AtScheduleIn \/ AtScheduleAt

SpecBackend == InitBackend /\ [][NextBackend]_vars

\* parse_backend applied to a name, the search path changing around it
ResolveNames ==
    {"auto", "systemd", "at", "cron", "", "AUTO", "Auto", "Systemd", "at ", " auto",
     "systemd-run", "atd", "none", "a", "auto,at", "launchd"}

InitResolve ==
    /\ opt \in {[NoOpt EXCEPT !.backend = n] : n \in ResolveNames}
    /\ avail \in SUBSET Concrete
    /\ delegate = "None" /\ calls = <<>> /\ fatal = "none" /\ attempts = 0
    /\ pc = "idle" /\ backend = BackendPending /\ notify = FALSE
    /\ trace = <<>> /\ exit = NoExit
    /\ IdleDuration /\ IdleFormat /\ IdleWhen /\ IdleSys /\ IdleUnit /\ IdleShell

ParseBackend ==
    /\ pc = "idle"
    /\ backend = BackendPending
    /\ backend' = parse_backend(opt.backend, avail)
    /\ trace' = trace \o ResolveEvents(opt.backend)
    /\ delegate' = IF backend'.instance = "auto" THEN AutoBackendInit ELSE delegate
    /\ UNCHANGED <<pc, opt, notify, exit, avail, calls, fatal, attempts,
                   durVars, fmtVars, whenVars, sysVars, unitVars, shVars>>

NextResolve == ParseBackend \/ SetAvailability

SpecResolve == InitResolve /\ [][NextResolve]_vars

\* one run of the command: script() = parse_args, then main
RunTitles == {NoTitle, <<>>, <<"a", " ", "b">>}

\* ns.message: the words after the duration or the time
RunTokens ==
    {<<>>, << <<" ">> >>, << <<"\t">>, <<"\n">> >>, << <<"hi">> >>, << <<"a">>, <<"b">> >>,
     << <<" ", "a">>, <<"b", " ">> >>, << <<"a">>, <<>>, <<"b">> >>}

RunOptions ==
    {[backend |-> b, title |-> t, command |-> c, tokens |-> ws, shape |-> sh] :
        b \in {"auto", "systemd", "at", "cron"}, t \in RunTitles, c \in {"in", "at"},
        ws \in RunTokens, sh \in {"ok", "help", "usage"}}

RunDurationTexts ==
    {<<"5", "m">>, <<"2", "0", "s">>, <<"0", "m">>, <<"5", "x">>, <<"sup2", "m">>,
     <<"1", "0", "0", "0", "0", "0", "0", "0", "0", "0", "d">>}

RunWhenTexts ==
    {<<"1", "5", ":", "0", "0">>, <<"0", "9", ":", "0", "0">>, <<"x", "x", "x">>, <<>>,
     <<"2", "0", "2", "7", "-", "0", "1", "-", "1", "6", " ", "1", "5", ":", "0", "0">>}

RunClocks == {Datetime(2026, 1, 15, 10, 0, 30, 0), Datetime(2026, 1, 15, 23, 59, 50, 500000)}

InitRun ==
    /\ opt \in RunOptions
    /\ text \in (IF opt.command = "in" THEN RunDurationTexts ELSE {<<>>})
    /\ raw \in (IF opt.command = "at" THEN RunWhenTexts ELSE {<<>>})
    /\ dres = Pending /\ now = NoDatetime /\ wres = WPending
    /\ avail \in SUBSET Concrete
    /\ delegate = "None" /\ calls = <<>> /\ fatal = "none" /\ attempts = 0
    /\ notify \in BOOLEAN
    /\ pc = "parse_args" /\ backend = BackendPending /\ trace = <<>> /\ exit = NoExit
    /\ clock \in RunClocks /\ spawned = <<>> /\ outcome = "none"
    /\ IdleFormat /\ IdleUnit /\ IdleShell

\* argparse reaches the type= function of the subcommand c
Converts(c) == opt.shape = "ok" /\ InRegistry(opt.backend) /\ opt.command = c

\* how p.parse_args ends for the command line o, d and w being the converted
\* duration and time: NoExit when it returns the namespace
ArgparseExit(o, d, w) ==
    CASE o.shape = "help" -> ExitOk
      [] o.shape = "usage" -> ExitUsage
      [] ~InRegistry(o.backend) -> ExitUsage
      [] o.command = "in" -> TypeExit(d)
      [] OTHER -> TypeExit(w)

\* parse_args: p.parse_args(list(argv)).  shape says whether the command line
\* is well formed, asks for help, or is malformed (no subcommand, unknown
\* option); --backend is checked against choices, the duration or the time
\* converted by its type= function.
ArgparseParse ==
    /\ pc = "parse_args"
    /\ dres' = IF Converts("in") THEN parse_duration(text) ELSE dres
    /\ wres' = IF Converts("at") THEN parse_when(raw, clock) ELSE wres
    /\ now' = IF Converts("at") THEN clock ELSE now
    /\ exit' = ArgparseExit(opt, dres', wres')
    /\ pc' = IF exit' = NoExit THEN "parse_backend" ELSE "done"
    /\ UNCHANGED <<text, raw, opt, backend, notify, trace, autoVars, fmtVars,
                   sysVars, unitVars, shVars>>

\* parse_args: backend = parse_backend(ns.backend), outside argparse
ResolveBackend ==
    /\ pc = "parse_backend"
    /\ backend' = parse_backend(opt.backend, avail)
    /\ trace' = trace \o ResolveEvents(opt.backend)
    /\ delegate' = IF backend'.instance = "auto" THEN AutoBackendInit ELSE delegate
    /\ IF backend'.status = "ok"
       THEN pc' = "message" /\ exit' = exit
       ELSE pc' = "done" /\ exit' = ExitTraceback
    /\ UNCHANGED <<opt, notify, avail, calls, fatal, attempts,
                   durVars, fmtVars, whenVars, sysVars, unitVars, shVars>>

\* parse_args: msg = " ".join(ns.message).strip(); die if empty
MessageCheck ==
    /\ pc = "message"
    /\ IF Method.message = <<>>
       THEN pc' = "done" /\ exit' = ExitDie /\ fatal' = MessageRequired
       ELSE pc' = "main" /\ exit' = exit /\ fatal' = fatal
    /\ UNCHANGED <<opt, backend, notify, trace, avail, delegate, calls, attempts,
                   durVars, fmtVars, whenVars, sysVars, unitVars, shVars>>

\* main: check_notify_send()
CheckNotifySend ==
    /\ pc = "main"
    /\ trace' = Append(trace, Ev("check_notify_send"))
    /\ IF check_notify_send(notify) = "return"
       THEN pc' = "dispatch" /\ exit' = exit
       ELSE pc' = "done" /\ exit' = ExitDie
    /\ UNCHANGED <<opt, backend, notify, autoVars,
                   durVars, fmtVars, whenVars, sysVars, unitVars, shVars>>

\* main: opt.backend.schedule_in(...) or schedule_at(...).  On AutoBackend
\* the call reads the delegate property first; the concrete backend then
\* spawns its process at a reading t of the clock.
Dispatch ==
    /\ pc = "dispatch"
    /\ pc' = "done"
    /\ LET call == OrchestratorCall(Method, backend.instance)
           auto == backend.instance = "auto"
           d == IF auto THEN delegate_property(delegate, avail) ELSE backend.instance
       IN /\ trace' = Append(trace, call)
                      \o (IF auto /\ delegate = "None" THEN <<Ev("scan")>> ELSE <<>>)
          /\ IF d = "None"
             THEN /\ fatal' = NoUsableBackend
                  /\ exit' = ExitDie
                  /\ UNCHANGED <<delegate, calls, attempts, sysVars>>
             ELSE \E t \in {clock, AddDelta(clock, Timedelta(1, 0))}, status \in {0, 1} :
                    LET found == is_available(d, avail) IN
                    /\ delegate' = IF auto THEN d ELSE delegate
                    /\ calls' = IF auto THEN Append(calls, [backend |-> d, op |-> call.ev])
                                ELSE calls
                    /\ attempts' = IF auto THEN attempts + 1 ELSE attempts
                    /\ fatal' = fatal
                    /\ clock' = t
                    /\ spawned' = Append(spawned,
                           Invocation(d, call.ev, call.arg, call.title, call.message, t,
                                      found, IF found THEN status ELSE 0))
                    /\ outcome' = CallOutcome(d, found, status)
                    /\ exit' = CallExit(outcome')
    /\ UNCHANGED <<opt, backend, notify, avail, durVars, fmtVars, whenVars, unitVars, shVars>>

NextRun ==
    \/ ArgparseParse \/ ResolveBackend \/ MessageCheck \/ CheckNotifySend \/ Dispatch
    \/ SetAvailability

SpecRun == InitRun /\ [][NextRun]_vars

\* SystemdBackend called once with a title and a message of any content
ArgvTexts == HostileArgs \cup ArgsOfLen(1) \cup {<<>>, <<"-", "-">>}

ArgvDurations ==
    {Timedelta(1800, 0), Timedelta(45, 0), Timedelta(5415, 0), Timedelta(7200, 0),
     Timedelta(86400, 0), Timedelta(90, 500000)}

InitArgv ==
    /\ sargs \in ArgvTexts \X ArgvTexts
    /\ shline = <<>>
    /\ clock \in {Datetime(2026, 1, 15, 10, 0, 30, 0), Datetime(2026, 1, 15, 23, 59, 50, 500000)}
    /\ spawned = <<>>
    /\ outcome = "none"
    /\ IdleDuration /\ IdleFormat /\ IdleWhen /\ IdleAuto /\ IdleRun /\ IdleUnit

\* SystemdBackend().<op>(arg, title, message) with the process exiting 0
SystemdCall(op, args) ==
    /\ spawned = <<>>
    /\ \E arg \in args :
         spawned' = <<Invocation("systemd", op, arg, sargs[1], sargs[2], clock, TRUE, 0)>>
    /\ outcome' = CallOutcome("systemd", TRUE, 0)
    /\ UNCHANGED <<clock, durVars, fmtVars, whenVars, autoVars, runVars, unitVars, shVars>>

SystemdBuildIn == SystemdCall("schedule_in", ArgvDurations)

SystemdBuildAt == SystemdCall("schedule_at", BackendWhens)

NextArgv == SystemdBuildIn \/ SystemdBuildAt

SpecArgv == InitArgv /\ [][NextArgv]_vars

----------------------------------------------------------------------------
(* Vocabulary of the claims *)

Body(x) == SubSeq(x, 1, Len(x) - 1)

Last(x) == x[Len(x)]

\* <N><unit> with N a run of decimal digits and unit one of s, m, h, d
HasGrammarShape(x) == x # <<>> /\ Last(x) \in Units /\ IsDecimal(Body(x))

\* the largest N for which N times the unit is at most 365 days
MaxMagnitude(unit) == (365 * 86400) \div UnitSeconds(unit)

\* <N><unit> with 0 < N and a span of at most 365 days
IsValidDuration(x) ==
    /\ HasGrammarShape(x)
    /\ IntOf(Body(x)) > 0
    /\ IntOf(Body(x)) <= MaxMagnitude(Last(x))

\* -<N><unit> with N > 0
IsNegativeDuration(x) ==
    /\ Len(x) >= 3
    /\ Last(x) \in Units
    /\ x[1] = "-"
    /\ IsDecimal(Tail(Body(x)))
    /\ IntOf(Tail(Body(x))) > 0

\* the first whitespace-delimited token has '-' or '/' next to a decimal digit
CarriesDate(r) ==
    LET first == Split(r)[1] IN
    \E i \in 1..Len(first) :
        /\ first[i] \in {"-", "/"}
        /\ \/ i > 1 /\ first[i - 1] \in DecimalSet
           \/ i < Len(first) /\ first[i + 1] \in DecimalSet

\* the time-only class: no date separator next to a digit in the first token,
\* and a ':' or am/pm in the text or a text of digits only
IsTimeOnly(r) ==
    /\ ~CarriesDate(r)
    /\ \/ Contains(r, <<":">>)
       \/ Contains(Lower(r), <<"a", "m">>)
       \/ Contains(Lower(r), <<"p", "m">>)
       \/ IsDecimal(r)

\* what the free-form parse of the text gives at this moment
Parsed == dtparser_parse(Strip(raw), [now EXCEPT !.microsecond = 0])

ParsedDt == [Parsed.dt EXCEPT !.microsecond = 0]

\* today at the parsed time of day
TodayAtParsedTime ==
    [now EXCEPT !.hour = ParsedDt.hour, !.minute = ParsedDt.minute,
                !.second = ParsedDt.second, !.microsecond = 0]

SameTimeOfDay(a, b) == a.hour = b.hour /\ a.minute = b.minute /\ a.second = b.second

SameDate(a, b) == a.year = b.year /\ a.month = b.month /\ a.day = b.day

----------------------------------------------------------------------------
(* Claims about parse_when, under SpecWhen *)

\* C1: for an input whose first token carries a date, a successful parse_when
\* returns exactly the parsed year, month, day, hour, minute and second.
C1_DateKept ==
    (wres.status = "ok" /\ CarriesDate(Strip(raw))) => wres.dt = ParsedDt

\* C2: for an input whose first token carries a date and whose parsed instant
\* is at or before now, parse_when fails with the not-in-the-future error.
C2_PastDateRejected ==
    (/\ wres # WPending
     /\ Strip(raw) # <<>>
     /\ CarriesDate(Strip(raw))
     /\ Parsed.ok
     /\ DtLeq(ParsedDt, now))
    => wres = WDie("requested time is not in the future")

\* C3: for a time-only input, parse_when returns the earliest instant strictly
\* after now that has the parsed time of day: today at that time when it is
\* strictly after now, tomorrow at that time otherwise, and never more than
\* one day after now.
C3_RollForward ==
    (/\ wres # WPending
     /\ Strip(raw) # <<>>
     /\ IsTimeOnly(Strip(raw))
     /\ Parsed.ok)
    => /\ wres.status = "ok"
       /\ SameTimeOfDay(wres.dt, ParsedDt)
       /\ wres.dt.microsecond = 0
       /\ DtLess(now, wres.dt)
       /\ DtLeq(wres.dt, AddDay(now))
       /\ SameDate(wres.dt, now) \/ SameDate(wres.dt, AddDay(now))
       /\ SameDate(wres.dt, now) <=> DtLess(now, TodayAtParsedTime)

\* a time of day already passed on 31 December rolls into the next year
C3_Witness ==
    /\ wres.status = "ok"
    /\ IsTimeOnly(Strip(raw))
    /\ now.month = 12 /\ now.day = 31
    /\ wres.dt.year = now.year + 1 /\ wres.dt.month = 1 /\ wres.dt.day = 1

\* C4: every instant parse_when returns is strictly after the now of the
\* call and has no sub-second part.
C4_ReturnedInstantIsFuture ==
    wres.status = "ok" => (DtLess(now, wres.dt) /\ wres.dt.microsecond = 0)

\* a bare date later than now, returned with the time of day of now
C4_Witness ==
    /\ wres.status = "ok"
    /\ CarriesDate(Strip(raw))
    /\ ~looks_time_only(Strip(raw))
    /\ now.microsecond > 0
    /\ wres.dt.year = 2027
    /\ wres.dt.second = now.second

----------------------------------------------------------------------------
(* Claims about parse_duration, under SpecDuration *)

\* C5: a text that trims and lowercases to <N><unit> with N > 0 and a span of
\* at most 365 days parses to exactly N times the unit's seconds; the spans
\* equal to 365 days are accepted.
C5_ValidDurationParsed ==
    LET x == Lower(Strip(text)) IN
    (dres # Pending /\ IsValidDuration(x))
    => dres = Ok(IntOf(Body(x)) * UnitSeconds(Last(x)))

\* 8760 hours, written with padding or in upper case, is accepted as 365 days
C5_Witness ==
    /\ dres = Ok(365 * 86400)
    /\ Lower(Strip(text)) = <<"8", "7", "6", "0", "h">>
    /\ text # Lower(Strip(text))

\* C6: an invalid text never yields a Duration, and each cause of rejection
\* has its own error: blank text, a wrong shape, a zero magnitude, a span
\* above 365 days.
C6_RejectionsDistinguished ==
    LET x == Lower(Strip(text)) IN
    dres # Pending =>
        /\ x = <<>> => dres = Die("empty duration")
        /\ (x # <<>> /\ ~HasGrammarShape(x)) => dres = Die("expected like 30m, 2h, 45s, 1d")
        /\ (HasGrammarShape(x) /\ IntOf(Body(x)) = 0) => dres = Die("must be > 0")
        /\ (HasGrammarShape(x) /\ IntOf(Body(x)) > MaxMagnitude(Last(x)))
              => dres = Die("maximum is 365 days")
        /\ dres.status = "ok" => IsValidDuration(x)

\* C7: a zero or a negative magnitude is reported with the 'must be > 0' error.
C7_NonPositiveMustBePositive ==
    LET x == Lower(Strip(text)) IN
    (/\ dres # Pending
     /\ \/ HasGrammarShape(x) /\ IntOf(Body(x)) = 0
        \/ IsNegativeDuration(x))
    => dres = Die("must be > 0")

\* C7 as amended: a zero magnitude is reported with the 'must be > 0' error
\* and a negative magnitude with the 'expected like' error.
C7_ZeroAndNegativeRejected ==
    LET x == Lower(Strip(text)) IN
    dres # Pending =>
        /\ (HasGrammarShape(x) /\ IntOf(Body(x)) = 0) => dres = Die("must be > 0")
        /\ IsNegativeDuration(x) => dres = Die("expected like 30m, 2h, 45s, 1d")

\* '-5m' has been rejected
C7_Witness ==
    /\ text = <<"-", "5", "m">>
    /\ dres = Die("expected like 30m, 2h, 45s, 1d")

----------------------------------------------------------------------------
(* Claims about format_systemd_duration, under SpecFormat *)

\* the units larger than u
LargerUnits(u) ==
    CASE u = "d" -> {}
      [] u = "h" -> {"d"}
      [] u = "m" -> {"d", "h"}
      [] u = "s" -> {"d", "h", "m"}

\* C8: a duration of S > 0 whole seconds is formatted as <N><unit> with unit
\* the first of d, h, m, s whose factor divides S and N times the factor equal
\* to S; parse_duration gives S back from that text when S is at most 365
\* days; a duration of zero or fewer seconds fails with the non-positive error.
C8_FormatRoundTrip ==
    (delta.us = 0 /\ fres # FPending) =>
        /\ delta.s <= 0 => fres = FDie("duration must be > 0 seconds")
        /\ delta.s > 0 =>
            /\ fres.status = "ok"
            /\ \E u \in Units :
                /\ delta.s % UnitSeconds(u) = 0
                /\ \A v \in LargerUnits(u) : delta.s % UnitSeconds(v) # 0
                /\ fres.txt = Dec(delta.s \div UnitSeconds(u)) \o <<u>>
        /\ (delta.s > 0 /\ delta.s <= 365 * 86400 /\ back # Pending) => back = Ok(delta.s)

\* two hours were formatted as '2h' and parsed back to 7200 seconds
C8_Witness ==
    /\ delta = Timedelta(7200, 0)
    /\ fres = FOk(<<"2", "h">>)
    /\ back = Ok(7200)

----------------------------------------------------------------------------
(* Claims about AutoBackend, under Spec *)

\* C9: the delegate selected by a scheduling call is the first available
\* concrete backend in registry order, systemd before at, never the auto entry;
\* with no concrete backend available the call dies with the no-usable-backend
\* error and no delegate is set.
C9_FirstAvailableSelected ==
    [][(attempts' = attempts + 1) =>
        /\ delegate' # "auto"
        /\ fatal' = NoUsableBackend => delegate' = "None"
        /\ delegate = "None" =>
            /\ "systemd" \in avail => delegate' = "systemd"
            /\ ("systemd" \notin avail /\ "at" \in avail) => delegate' = "at"
            /\ avail = {} =>
                (delegate' = "None" /\ fatal' = NoUsableBackend /\ calls' = calls)]_vars

\* with both backends available the first call selected systemd
C9_Witness ==
    /\ attempts = 1
    /\ avail = {"systemd", "at"}
    /\ delegate = "systemd"
    /\ calls # <<>>

\* C10: the delegate is unset before the first scheduling call, never changes
\* once set, and every scheduling call goes to it, whatever the availability
\* becomes afterwards.
C10_DelegateSetOnce ==
    [][/\ delegate # "None" => delegate' = delegate
       /\ attempts = 0 => delegate = "None"
       /\ \A i \in 1..Len(calls') : calls'[i].backend = delegate']_vars

\* systemd was selected, is no longer available, and still receives the calls
C10_Witness ==
    /\ delegate = "systemd"
    /\ avail = {"at"}
    /\ Len(calls) = MaxCalls
    /\ \A i \in 1..Len(calls) : calls[i].backend = "systemd"

----------------------------------------------------------------------------
(* Claims about unit_name, under SpecUnit *)

\* the decimal number written at positions from..to of a text, -1 when those
\* characters are not all decimal digits
FieldAt(n, from, to) ==
    IF IsDecimal(SubSeq(n, from, to)) THEN IntOf(SubSeq(n, from, to)) ELSE -1

\* n is <prefix>-YYYYMMDD-HHMMSS-NNNNNN for the instant a
HasUnitNameFormat(n, prefix, a) ==
    LET k == Len(prefix) IN
    /\ Len(n) = k + 23
    /\ SubSeq(n, 1, k) = prefix
    /\ n[k + 1] = "-" /\ n[k + 10] = "-" /\ n[k + 17] = "-"
    /\ FieldAt(n, k + 2, k + 5) = a.year
    /\ FieldAt(n, k + 6, k + 7) = a.month
    /\ FieldAt(n, k + 8, k + 9) = a.day
    /\ FieldAt(n, k + 11, k + 12) = a.hour
    /\ FieldAt(n, k + 13, k + 14) = a.minute
    /\ FieldAt(n, k + 15, k + 16) = a.second
    /\ FieldAt(n, k + 18, k + 23) = a.microsecond

\* C17: unit_name gives <prefix>-YYYYMMDD-HHMMSS-NNNNNN with the
\* microseconds zero-padded to six digits, and two different instants get
\* different names under one prefix.
C17_UnitNameFormatInjective ==
    unames # <<>> =>
        /\ HasUnitNameFormat(unames[1], uwhen[3], uwhen[1])
        /\ HasUnitNameFormat(unames[2], uwhen[3], uwhen[2])
        /\ uwhen[1] # uwhen[2] => unames[1] # unames[2]

\* two instants of one second, 0 and 1 microseconds, were given different names
C17_Witness ==
    /\ unames # <<>>
    /\ uwhen[1].microsecond = 0 /\ uwhen[2].microsecond = 1
    /\ [uwhen[1] EXCEPT !.microsecond = 1] = uwhen[2]
    /\ unames[1] # unames[2]

----------------------------------------------------------------------------
(* Claims about the shell line of the at backend, under SpecShell *)

\* A POSIX shell reading a script: token recognition and quoting (single
\* quotes, double quotes, backslash), words split at blanks, commands ended by
\* newline or ';'.  hazard records anything that is not a plain word of a
\* simple command: an expansion or substitution ($, backquote), a glob or tilde, an
\* operator or grouping character, a quote left open.
ShStart ==
    [mode |-> "plain", word |-> <<>>, inWord |-> FALSE, words |-> <<>>, cmds |-> <<>>,
     hazard |-> FALSE]

ShEndWord(z) ==
    IF z.inWord
    THEN [z EXCEPT !.words = Append(z.words, z.word), !.word = <<>>, !.inWord = FALSE]
    ELSE z

ShEndCommand(z) ==
    LET y == ShEndWord(z) IN
    IF y.words # <<>> THEN [y EXCEPT !.cmds = Append(y.cmds, y.words), !.words = <<>>] ELSE y

ShAdd(z, c) == [z EXCEPT !.word = Append(z.word, c), !.inWord = TRUE]

ShStep(z, c) ==
    CASE z.mode = "plain" ->
            (CASE c \in {" ", "\t"} -> ShEndWord(z)
               [] c \in {"\n", ";"} -> ShEndCommand(z)
               [] c = "'" -> [z EXCEPT !.mode = "single", !.inWord = TRUE]
               [] c = "\"" -> [z EXCEPT !.mode = "double", !.inWord = TRUE]
               [] c = "\\" -> [z EXCEPT !.mode = "escape"]
               [] c = "#" /\ ~z.inWord -> [z EXCEPT !.mode = "comment"]
               [] c \in {"$", "backtick", "(", ")", "<", ">", "|", "&", "*", "?", "[", "~", "{", "}", "!"}
                    -> [ShEndCommand(z) EXCEPT !.hazard = TRUE]
               [] OTHER -> ShAdd(z, c))
      [] z.mode = "single" ->
            (IF c = "'" THEN [z EXCEPT !.mode = "plain"] ELSE ShAdd(z, c))
      [] z.mode = "double" ->
            (CASE c = "\"" -> [z EXCEPT !.mode = "plain"]
               [] c = "\\" -> [z EXCEPT !.mode = "double-escape"]
               [] c \in {"$", "backtick"} -> [z EXCEPT !.hazard = TRUE]
               [] OTHER -> ShAdd(z, c))
      [] z.mode = "escape" ->
            (IF c = "\n" THEN [z EXCEPT !.mode = "plain"]
             ELSE [ShAdd(z, c) EXCEPT !.mode = "plain"])
      [] z.mode = "double-escape" ->
            (CASE c \in {"$", "backtick", "\"", "\\"} -> [ShAdd(z, c) EXCEPT !.mode = "double"]
               [] c = "\n" -> [z EXCEPT !.mode = "double"]
               [] OTHER -> [ShAdd(ShAdd(z, "\\"), c) EXCEPT !.mode = "double"])
      [] z.mode = "comment" ->
            (IF c = "\n" THEN [ShEndCommand(z) EXCEPT !.mode = "plain"] ELSE z)

RECURSIVE ShFold(_, _)
ShFold(z, line) == IF line = <<>> THEN z ELSE ShFold(ShStep(z, Head(line)), Tail(line))

\* the commands a shell runs for the script, each a list of words, and
\* whether the script held anything but plain words
ShRun(line) ==
    LET z == ShFold(ShStart, line)
        end == ShEndCommand(z)
    IN [cmds |-> end.cmds, hazard |-> end.hazard \/ z.mode \notin {"plain", "comment"}]

\* C20: whatever the title and the message contain, the shell line submitted
\* to at runs exactly one command, notify-send, with exactly the title and the
\* message as its two arguments.
C20_ShellLineRunsOnlyNotifySend ==
    shline # <<>> =>
        ShRun(shline) = [cmds |-> << << <<"notify-send">>, sargs[1], sargs[2] >> >>,
                         hazard |-> FALSE]

\* a title made of a quote and a semicolon went through as one argument
C20_Witness ==
    /\ shline # <<>>
    /\ sargs[1] = <<"'", ";">>
    /\ sargs[2] = <<"a", ";", " ", "r", "m", " ", "-", "r", "f", " ", "/">>
    /\ ShRun(shline).cmds[1][2] = <<"'", ";">>

----------------------------------------------------------------------------
(* Claims about the concrete backends, under SpecBackend *)

\* C16: on either concrete backend, a scheduling call whose executable is
\* not found, or whose process exits with a non-zero status, ends in die().
C16_SpawnFailureDies ==
    spawned # <<>> =>
        LET c == Last(spawned) IN
        (~c.found \/ c.proc.status # 0) => outcome = "die"

\* the --unit argument of a systemd-run invocation
UnitArg(c) == c.proc.argv[4]

\* C18: no two systemd-run invocations carry the same --unit name.
C18_UnitNamesDistinct ==
    \A i, j \in 1..Len(spawned) :
        (/\ i < j
         /\ spawned[i].backend = "systemd" /\ spawned[j].backend = "systemd"
         /\ spawned[i].found /\ spawned[j].found)
        => UnitArg(spawned[i]) # UnitArg(spawned[j])

\* the instant a timestamp YYYYMMDDhhmm of at -t denotes
AtInstant(ts) ==
    Datetime(IntOf(SubSeq(ts, 1, 4)), IntOf(SubSeq(ts, 5, 6)), IntOf(SubSeq(ts, 7, 8)),
             IntOf(SubSeq(ts, 9, 10)), IntOf(SubSeq(ts, 11, 12)), 0, 0)

\* C19: the trigger schedule_in hands to the scheduler is not earlier than the
\* moment of the call plus the duration: for systemd-run the --on-active span
\* is not shorter than the duration, for at the submitted minute is not before
\* call + duration and is after the moment of the call.
C19_TriggerNotBeforeDue ==
    \A i \in 1..Len(spawned) :
        LET c == spawned[i] IN
        (c.found /\ c.proc.op = "schedule_in") =>
            IF c.backend = "systemd"
            THEN /\ parse_duration(c.proc.argv[6]).status = "ok"
                 /\ parse_duration(c.proc.argv[6]).seconds >= c.arg.s
            ELSE /\ DtLeq(AddDelta(c.proc.at, c.arg), AtInstant(c.proc.argv[3]))
                 /\ DtLess(c.proc.at, AtInstant(c.proc.argv[3]))

----------------------------------------------------------------------------
(* Claims about parse_backend, under SpecResolve *)

C12_Step ==
    (backend = BackendPending /\ backend' # BackendPending) =>
        LET name == opt.backend
            known == name \in {"auto", "systemd", "at"}
            probe == IF name = "auto" THEN avail # {} ELSE name \in avail
        IN /\ backend'.status = "ok" <=> (known /\ probe)
           /\ backend'.status = "ok" => backend'.instance = name
           /\ ~known => backend' = BackendError("unknown backend")
           /\ (known /\ ~probe) => backend' = BackendError("is not available on this system")
           /\ backend'.status # "ok" => backend'.instance = "None"

\* C12: parse_backend returns an instance only for a registry name whose
\* availability probe is true at that moment; an unknown name gives the
\* unknown-backend error, an unavailable backend the not-available error, and
\* neither constructs an instance.
C12_BackendResolved == [][C12_Step]_vars

\* auto was asked for with no concrete backend on the search path
C12_Witness ==
    /\ opt.backend = "auto"
    /\ backend = BackendError("is not available on this system")
    /\ trace # <<>>

----------------------------------------------------------------------------
(* Claims about one run, under SpecRun *)

IsScan(e) == e.ev = "scan"

IsProbe(e) == e.ev \in {"scan", "probe"}

IsCheck(e) == e.ev = "check_notify_send"

IsSchedule(e) == e.ev \in {"schedule_in", "schedule_at"}

ScansIn(tr) == Len(SelectSeq(tr, IsScan))

Checks == Len(SelectSeq(trace, IsCheck))

Scheduled == SelectSeq(trace, IsSchedule)

\* what the claim C11 says: with backend auto the concrete backends are
\* scanned at most once, the scan of the resolution setting the delegate.
C11_ScannedAtMostOnce ==
    opt.backend = "auto" =>
        /\ ScansIn(trace) <= 1
        /\ (backend.status = "ok" /\ pc # "done") => delegate # "None"

C11_Step ==
    opt.backend = "auto" =>
        /\ ScansIn(trace') <= 2
        /\ (pc = "parse_backend" /\ pc' # pc) => (ScansIn(trace') = 1 /\ delegate' = "None")
        /\ delegate' # delegate =>
              /\ pc = "dispatch"
              /\ ScansIn(trace) = 1 /\ ScansIn(trace') = 2
              /\ avail # {}
              /\ delegate' = IF "systemd" \in avail THEN "systemd" ELSE "at"

\* C11: with backend auto the concrete backends are scanned up to twice: once
\* at backend resolution by the static AutoBackend.is_available, which leaves
\* the delegate unset, and once more at the scheduling call, which sets the
\* delegate to the first backend available at that later moment.
C11_ScannedAtResolutionAndAtScheduling == [][C11_Step]_vars

\* resolution found a backend, the scan of the scheduling call found none
C11_Witness ==
    /\ opt.backend = "auto"
    /\ backend = BackendOk("auto")
    /\ ScansIn(trace) = 2
    /\ fatal = NoUsableBackend
    /\ exit = ExitDie

\* what the claim C13 says: the check for notify-send is made exactly once in
\* every run, before any availability probe and any scheduling call.
C13_CheckedOnceBeforeBackend ==
    /\ pc = "done" => Checks = 1
    /\ \A i, j \in 1..Len(trace) :
          (IsCheck(trace[i]) /\ (IsProbe(trace[j]) \/ IsSchedule(trace[j]))) => i < j
    /\ (~notify /\ Checks = 1) => (exit = ExitDie /\ Scheduled = <<>>)

\* C13: the check for notify-send is made at most once, and exactly once in
\* the runs whose parsing and backend resolution succeed; it comes after the
\* availability probe of the resolution and before any scheduling call; when
\* notify-send is absent the run dies there and no scheduling call is made.
C13_CheckedOnceAfterResolution ==
    /\ Checks <= 1
    /\ (pc = "dispatch" \/ Scheduled # <<>>) => Checks = 1
    /\ (pc = "done" /\ backend.status = "ok" /\ Strip(JoinSp(opt.tokens)) # <<>>)
          => Checks = 1
    /\ \A i \in 1..Len(trace) : IsCheck(trace[i]) => (i = 2 /\ IsProbe(trace[1]))
    /\ \A j \in 1..Len(trace) :
          IsSchedule(trace[j]) => \E i \in 1..(j - 1) : IsCheck(trace[i])
    /\ (~notify /\ Checks = 1) => (pc = "done" /\ exit = ExitDie /\ Scheduled = <<>>)

\* notify-send is absent: the run probed the backend, checked, and died
C13_Witness ==
    /\ ~notify
    /\ pc = "done"
    /\ exit = ExitDie
    /\ Len(trace) = 2 /\ IsProbe(trace[1]) /\ IsCheck(trace[2])

\* C14: main makes one scheduling call on the backend parse_args returned:
\* schedule_in with the duration for the command in, schedule_at with the
\* instant for the command at, with the title and the message of the Method.
C14_OneSchedulingCall ==
    /\ Len(Scheduled) <= 1
    /\ (pc = "done" /\ Checks = 1 /\ notify) => Len(Scheduled) = 1
    /\ \A i \in 1..Len(trace) :
          IsSchedule(trace[i]) =>
              LET c == trace[i] IN
              /\ c.on = opt.backend
              /\ c.title = (IF opt.title = NoTitle THEN <<"Reminder">> ELSE opt.title)
              /\ c.message = Strip(JoinSp(opt.tokens))
              /\ IF opt.command = "in"
                 THEN c.ev = "schedule_in" /\ dres.status = "ok"
                      /\ c.arg = Timedelta(dres.seconds, 0)
                 ELSE c.ev = "schedule_at" /\ wres.status = "ok" /\ c.arg = wres.dt

\* a run of the command at with a title of its own ended well
C14_Witness ==
    /\ pc = "done"
    /\ exit = ExitOk
    /\ opt.command = "at"
    /\ opt.title = <<"a", " ", "b">>
    /\ Len(Scheduled) = 1
    /\ Scheduled[1].ev = "schedule_at"
    /\ Scheduled[1].title = <<"a", " ", "b">>

\* C15: a run that fails ends with a non-zero status and a diagnostic that
\* starts with 'error: '; the status is 0 only when the scheduling call
\* returned.
C15_FailuresExitWithErrorPrefix ==
    pc = "done" =>
        /\ exit.status = 0 => outcome = "return"
        /\ outcome # "return" => (exit.status # 0 /\ exit.diag = "error: ")

----------------------------------------------------------------------------
(* Claims about the argument vector of systemd-run, under SpecArgv *)

\* a text of the form YYYY-MM-DD HH:MM:SS that reads as the instant a
IsCalendarTextOf(x, a) ==
    /\ Len(x) = 19
    /\ x[5] = "-" /\ x[8] = "-" /\ x[11] = " " /\ x[14] = ":" /\ x[17] = ":"
    /\ IntOf(SubSeq(x, 1, 4)) = a.year
    /\ IntOf(SubSeq(x, 6, 7)) = a.month
    /\ IntOf(SubSeq(x, 9, 10)) = a.day
    /\ IntOf(SubSeq(x, 12, 13)) = a.hour
    /\ IntOf(SubSeq(x, 15, 16)) = a.minute
    /\ IntOf(SubSeq(x, 18, 19)) = a.second

\* C21: the argument vector of systemd-run is [systemd-run, --user, --unit,
\* <job name>, <trigger flag>, <trigger value>, --, notify-send, <title>,
\* <message>]: --on-active with the format_systemd_duration text for
\* schedule_in, --on-calendar with YYYY-MM-DD HH:MM:SS for schedule_at, the
\* title and the message each one element equal to the text given.
C21_SystemdArgvShape ==
    \A i \in 1..Len(spawned) :
        LET c == spawned[i]
            v == c.proc.argv
        IN c.backend = "systemd" =>
            /\ Len(v) = 10
            /\ v[1] = <<"systemd-run">> /\ v[2] = <<"--user">> /\ v[3] = <<"--unit">>
            /\ SubSeq(v[4], 1, 2) = <<"remindme", "-">>
            /\ v[7] = <<"--">> /\ v[8] = <<"notify-send">>
            /\ v[9] = sargs[1] /\ v[10] = sargs[2]
            /\ IF c.proc.op = "schedule_in"
               THEN /\ v[5] = <<"--on-active">>
                    /\ v[6] = format_systemd_duration(c.arg).txt
                    /\ c.arg = Timedelta(1800, 0) => v[6] = <<"3", "0", "m">>
                    /\ c.arg = Timedelta(90, 500000) => v[6] = <<"9", "0", "s">>
               ELSE /\ v[5] = <<"--on-calendar">>
                    /\ IsCalendarTextOf(v[6], c.arg)

\* 30 minutes with a message of spaces, quotes and a semicolon
C21_Witness ==
    /\ Len(spawned) = 1
    /\ spawned[1].proc.op = "schedule_in"
    /\ spawned[1].arg = Timedelta(1800, 0)
    /\ sargs[2] = <<"a", ";", " ", "r", "m", " ", "-", "r", "f", " ", "/">>
    /\ spawned[1].proc.argv[6] = <<"3", "0", "m">>
    /\ spawned[1].proc.argv[10] = sargs[2]

----------------------------------------------------------------------------
(* Claims about the message, the title and the spawned process, under SpecRun *)

\* parse_args returned an Options value
Produced == pc \in {"main", "dispatch"} \/ Checks >= 1

\* every character of every token is white space
AllBlank(tokens) ==
    \A i \in 1..Len(tokens) : \A k \in 1..Len(tokens[i]) : tokens[i][k] \in Whitespace

\* m is full without its leading and trailing white space, and is not empty
IsTrimOf(m, full) ==
    \E i \in 1..Len(full) : \E j \in i..Len(full) :
        /\ m = SubSeq(full, i, j)
        /\ full[i] \notin Whitespace /\ full[j] \notin Whitespace
        /\ \A k \in 1..(i - 1) : full[k] \in Whitespace
        /\ \A k \in (j + 1)..Len(full) : full[k] \in Whitespace

\* C22: the message of the Method is the tokens of ns.message joined by
\* single spaces and trimmed, never empty; tokens that trim to nothing end
\* parse_args with die('message is required') and no Options; the title is
\* the --title value, 'Reminder' without one.
C22_MessageJoinedTrimmedNonEmpty ==
    /\ Produced =>
          /\ ~AllBlank(opt.tokens)
          /\ IsTrimOf(Method.message, JoinSp(opt.tokens))
          /\ Method.title = (IF opt.title = NoTitle THEN <<"Reminder">> ELSE opt.title)
    /\ \A i \in 1..Len(Scheduled) :
          /\ IsTrimOf(Scheduled[i].message, JoinSp(opt.tokens))
          /\ Scheduled[i].title = (IF opt.title = NoTitle THEN <<"Reminder">> ELSE opt.title)
    /\ (AllBlank(opt.tokens) /\ pc = "done" /\ backend.status = "ok") =>
          (exit = ExitDie /\ fatal = MessageRequired /\ Checks = 0 /\ Scheduled = <<>>)

\* ' a' and 'b ' without --title were scheduled as 'a b' under 'Reminder'
C22_Witness ==
    /\ opt.tokens = << <<" ", "a">>, <<"b", " ">> >>
    /\ opt.title = NoTitle
    /\ Len(Scheduled) = 1
    /\ Scheduled[1].message = <<"a", " ", "b">>
    /\ Scheduled[1].title = <<"Reminder">>

\* what the claim C23 says: at most one scheduling process is spawned,
\* exactly one in every run that exits with status 0, none before parsing,
\* resolution and the notify-send check succeeded.
C23_OneSpawnWheneverStatusZero ==
    /\ Len(spawned) <= 1
    /\ (pc = "done" /\ exit.status = 0) => (Len(spawned) = 1 /\ spawned[1].found)
    /\ spawned # <<>> => (backend.status = "ok" /\ Checks = 1 /\ notify)

\* C23: at most one scheduling process is spawned; exactly one, exiting 0, in
\* every run that exits with status 0 other than a --help run, which exits 0
\* and spawns none; it is spawned only after the duration or time was parsed,
\* the backend resolved, the message found and notify-send checked; a run
\* that exits non-zero spawned none or saw its one process fail.
C23_OneSpawnAfterAllChecks ==
    /\ Len(spawned) <= 1
    /\ (pc = "done" /\ exit.status = 0 /\ opt.shape # "help") =>
          (Len(spawned) = 1 /\ spawned[1].found /\ spawned[1].proc.status = 0)
    /\ (pc = "done" /\ opt.shape = "help") => (exit.status = 0 /\ spawned = <<>>)
    /\ spawned # <<>> =>
          /\ pc = "done"
          /\ opt.shape = "ok"
          /\ (IF opt.command = "in" THEN dres.status = "ok" ELSE wres.status = "ok")
          /\ backend.status = "ok"
          /\ ~AllBlank(opt.tokens)
          /\ Checks = 1 /\ notify
    /\ (pc = "done" /\ exit.status # 0) =>
          \A i \in 1..Len(spawned) : ~spawned[i].found \/ spawned[i].proc.status # 0

\* auto chose at, and the one at process exited 0
C23_Witness ==
    /\ pc = "done"
    /\ exit = ExitOk
    /\ opt.backend = "auto"
    /\ Len(spawned) = 1
    /\ spawned[1].backend = "at"
    /\ spawned[1].found /\ spawned[1].proc.status = 0

====
